---- MODULE Spec2Model ----
(***************************************************************************)
(* Model of the Layer 0 hardware abstraction layer, system_hal.c.          *)
(*                                                                         *)
(* uint32_t values are kept at their full 32-bit width.  TLC's integers    *)
(* are 32-bit signed, so a uint32_t is held as two 16-bit limbs,           *)
(* [hi |-> 0..65535, lo |-> 0..65535], value = hi * 2^16 + lo.             *)
(***************************************************************************)
EXTENDS Integers, Sequences, FiniteSets, TLC

VARIABLES
    g_interrupt_nesting,  \* static uint32_t g_interrupt_nesting
    g_hal_state,          \* static struct { initialized; start_time_us }
    lastOp,               \* history: name of the last completed API call
    lastArg,              \* history: argument of the last completed call
    lastRet,              \* history: value returned by the last call
    prevNesting,          \* history: g_interrupt_nesting before the last call
    startNesting,         \* history: g_interrupt_nesting at the start of the run
    trace,                \* history: interrupt calls made so far, oldest first
    pc,                   \* concurrent contexts: where each one is in its call
    reg,                  \* concurrent contexts: the counter value each one loaded
    calls,                \* concurrent contexts: calls each one has begun
    completed,            \* history: [dis, res] calls that wrote the counter
    tokens,               \* history: tokens returned since the last restore
    rawNs,                \* CLOCK_MONOTONIC_RAW, nanoseconds
    monoNs,               \* CLOCK_MONOTONIC, nanoseconds
    tsc,                  \* hardware cycle counter
    rawAvail,             \* clock_gettime(CLOCK_MONOTONIC_RAW) succeeds
    monoAvail,            \* clock_gettime(CLOCK_MONOTONIC) succeeds
    sourceChanges,        \* history: times a clock source started or stopped failing
    build,                \* [hasRaw, hwCycles]: what the #if branches selected
    tpc,                  \* where the caller of the timing functions is
    delayArg,             \* delay_us / delay_ns of the running delay call
    delayEnd,             \* end / target_cycles of the running delay call
    spin,                 \* nanoseconds one turn of the running busy-wait takes
    polls,                \* turns the running busy-wait has taken; past MaxPolls,
                          \* MaxPolls and MaxPolls + 1 in turn
    nowBefore,            \* now() sampled right before the running delay call
    measure,              \* history: [d, before, after] of the last delay call
    lastNow,              \* history: result of the latest hal_get_timestamp_us
    prevNow,              \* history: result of the one before it
    nowSeen,              \* history: hal_get_timestamp_us results seen (0, 1, 2)
    timeCalls,            \* history: delay calls begun
    memBuild,             \* "posix" or "manual": the #if branch of the allocator
    heap,                 \* blocks the platform allocator has handed out: [base, len]
    stash,                \* pointer-sized words the HAL has written: <<address, value>>
    owned,                \* pointers returned by hal_malloc_aligned and not yet freed
    lastAlloc,            \* history: the last hal_malloc_aligned call
    released,             \* history: what was passed to free(), oldest first
    fault,                \* an access outside every live block, or a bad free()
    memCalls,             \* history: hal_malloc_aligned calls made
    rawOf,                \* history: <<pointer, raw base>> of the pointers in owned
    lastFree,             \* history: the last hal_free_aligned call
    devCall,              \* history: the last timer / DMA call, its inputs and status
    prevHal,              \* history: the HAL state before the last timer / DMA call
    everInit              \* history: a timer / DMA init call has returned HAL_OK

halVars == <<g_interrupt_nesting, g_hal_state>>

histVars == <<lastOp, lastArg, lastRet, prevNesting, startNesting, trace>>

concVars == <<pc, reg, calls, completed, tokens>>

clockVars == <<rawNs, monoNs, tsc>>

availVars == <<rawAvail, monoAvail, sourceChanges>>

nowVars == <<lastNow, prevNow, nowSeen>>

callVars == <<tpc, delayArg, delayEnd, spin, polls, nowBefore, measure, timeCalls>>

timeVars == <<clockVars, availVars, build, nowVars, callVars>>

memVars == <<memBuild, heap, stash, owned, lastAlloc, released, fault, memCalls,
             rawOf, lastFree>>

devVars == <<devCall, prevHal, everInit>>

vars == <<halVars, histVars, concVars, timeVars, memVars, devVars>>

----------------------------------------------------------------------------
(* Bounds                                                                  *)

\* longest sequence of interrupt calls explored
MaxOps == 5

\* number of concurrent execution contexts
NumCtx == 2

\* calls each concurrent context makes
MaxCalls == 2

\* delay calls made in one run
MaxTimeCalls == 1

\* times a clock source starts or stops failing in one run
MaxSourceChanges == 2

\* turns of a busy-wait loop that are followed one by one; past them the
\* loop's remaining turns are taken as one long step
MaxPolls == 4

\* clock reading at which the run starts
StartNs == 999999000

\* latest clock reading at which a delay call is begun
MaxStartNs == StartNs + 6000000

\* clock reading beyond which the passing of time is no longer tracked
ClockCeilNs == MaxStartNs + 40000000

\* cycles the hardware cycle counter gains per nanosecond
TscPerNs == 3

\* hal_malloc_aligned calls made in one run
MaxAllocs == 2

----------------------------------------------------------------------------
(* uint32_t arithmetic                                                     *)

Limb == 2 ^ 16

U32(h, l) == [hi |-> h, lo |-> l]

U32Zero == U32(0, 0)

U32Max == U32(Limb - 1, Limb - 1)

\* a small natural number as a uint32_t
U32Of(n) == U32(n \div Limb, n % Limb)

\* x + 1 in uint32_t arithmetic (wraps from 2^32 - 1 to 0)
U32Inc(x) ==
    IF x.lo < Limb - 1 THEN U32(x.hi, x.lo + 1)
    ELSE IF x.hi < Limb - 1 THEN U32(x.hi + 1, 0)
    ELSE U32Zero

\* x - 1 in uint32_t arithmetic (wraps from 0 to 2^32 - 1)
U32Dec(x) ==
    IF x.lo > 0 THEN U32(x.hi, x.lo - 1)
    ELSE IF x.hi > 0 THEN U32(x.hi - 1, Limb - 1)
    ELSE U32Max

\* x > 0
U32Pos(x) == x.hi > 0 \/ x.lo > 0

\* y = x + 1 over the integers (no y exists in uint32_t for x = 2^32 - 1)
IsSucc(x, y) ==
    \/ x.lo < Limb - 1 /\ y = U32(x.hi, x.lo + 1)
    \/ x.lo = Limb - 1 /\ x.hi < Limb - 1 /\ y = U32(x.hi + 1, 0)

\* x + n <= 2^32 - 1 over the integers, for a small natural n
U32Fits(x, n) == x.hi < Limb - 1 \/ x.lo + n <= Limb - 1

----------------------------------------------------------------------------
(* Interrupt functions                                                     *)

\* variant: return ++g_interrupt_nesting;
hal_disable_interrupts_preinc(nesting) ==
    [ret |-> U32Inc(nesting), nesting |-> U32Inc(nesting)]

\* return g_interrupt_nesting++;
hal_disable_interrupts(nesting) ==
    [ret |-> nesting, nesting |-> U32Inc(nesting)]

\* variant: g_interrupt_nesting--; without the > 0 test
hal_restore_interrupts_unguarded(nesting, state) == U32Dec(nesting)

\* variant: decrement only when state is the token of the innermost disable
hal_restore_interrupts_lifo(nesting, state) ==
    IF U32Pos(nesting) /\ state = U32Dec(nesting) THEN U32Dec(nesting) ELSE nesting

\* if (g_interrupt_nesting > 0) g_interrupt_nesting--;   (state is unused)
hal_restore_interrupts(nesting, state) ==
    IF U32Pos(nesting) THEN U32Dec(nesting) ELSE nesting

\* hal_disable_interrupts();   (the token is dropped)
hal_enter_critical(nesting) == hal_disable_interrupts(nesting).nesting

\* variant: restore the counter to the token value 0
hal_exit_critical_reset(nesting) == U32Zero

\* hal_restore_interrupts(0);
hal_exit_critical(nesting) == hal_restore_interrupts(nesting, U32Zero)

\* the void return of a call
Void == [void |-> TRUE]

\* values the counter can hold when a run starts: every value of 0..2^32-1
\* is reached from the initial 0 by that many hal_disable_interrupts calls
StartNesting == {U32Zero, U32Of(1), U32Dec(U32Max), U32Max}

\* tokens a caller may hand to hal_restore_interrupts
Tokens == {U32Zero, U32Of(1), U32Of(7), U32Max}

NoArg == [none |-> TRUE]

Contexts == 1..NumCtx

\* the concurrent contexts are not running
ConcIdle ==
    /\ pc = [c \in Contexts |-> "idle"]
    /\ reg = [c \in Contexts |-> U32Zero]
    /\ calls = [c \in Contexts |-> 0]
    /\ completed = [dis |-> 0, res |-> 0]
    /\ tokens = <<>>

\* the timing functions are not in use
NoMeasure == [d |-> 0, before |-> 0, after |-> 0]

TimeIdle ==
    /\ rawNs = StartNs
    /\ monoNs = StartNs
    /\ tsc = 0
    /\ rawAvail = TRUE
    /\ monoAvail = TRUE
    /\ sourceChanges = 0
    /\ build = [hasRaw |-> TRUE, hwCycles |-> TRUE]
    /\ tpc = "idle"
    /\ delayArg = 0
    /\ delayEnd = 0
    /\ spin = 0
    /\ polls = 0
    /\ nowBefore = 0
    /\ measure = NoMeasure
    /\ lastNow = 0
    /\ prevNow = 0
    /\ nowSeen = 0
    /\ timeCalls = 0

NULL == 0

\* the allocator is not in use
NoAlloc == [called |-> FALSE, size |-> 0, alignment |-> 0, raw |-> NULL, len |-> 0,
            ptr |-> NULL]

NoFree == [called |-> FALSE, ptr |-> NULL, expect |-> NULL, freed |-> NULL]

MemIdle ==
    /\ memBuild = "posix"
    /\ heap = {}
    /\ stash = {}
    /\ owned = {}
    /\ lastAlloc = NoAlloc
    /\ released = <<>>
    /\ fault = FALSE
    /\ memCalls = 0
    /\ rawOf = {}
    /\ lastFree = NoFree

\* no timer / DMA call has been made
NoDevCall == [op |-> "none", id |-> 0, arg |-> NULL, status |-> 0, out |-> 0]

DevIdle ==
    /\ devCall = NoDevCall
    /\ prevHal = <<g_interrupt_nesting, g_hal_state>>
    /\ everInit = FALSE

\* no interrupt call has been made
HistNone ==
    /\ lastOp = "none"
    /\ lastArg = NoArg
    /\ lastRet = Void
    /\ prevNesting = g_interrupt_nesting
    /\ startNesting = g_interrupt_nesting
    /\ trace = <<>>

\* what a call made from the single sequential caller leaves alone
SeqFrame == UNCHANGED <<concVars, timeVars, memVars, devVars>>

InitIrq ==
    /\ g_interrupt_nesting \in StartNesting
    /\ g_hal_state = [initialized |-> FALSE, start_time_us |-> 0]
    /\ HistNone
    /\ ConcIdle
    /\ TimeIdle
    /\ MemIdle
    /\ DevIdle

DisableInterrupts ==
    /\ Len(trace) < MaxOps
    /\ LET r == hal_disable_interrupts(g_interrupt_nesting) IN
        /\ g_interrupt_nesting' = r.nesting
        /\ lastRet' = r.ret
    /\ lastOp' = "disable_interrupts"
    /\ lastArg' = NoArg
    /\ prevNesting' = g_interrupt_nesting
    /\ trace' = Append(trace, "D")
    /\ UNCHANGED <<g_hal_state, startNesting>>
    /\ SeqFrame

RestoreInterrupts ==
    /\ Len(trace) < MaxOps
    /\ \E state \in Tokens \cup {prevNesting} :
        /\ g_interrupt_nesting' = hal_restore_interrupts(g_interrupt_nesting, state)
        /\ lastArg' = state
    /\ lastOp' = "restore_interrupts"
    /\ lastRet' = Void
    /\ prevNesting' = g_interrupt_nesting
    /\ trace' = Append(trace, "R")
    /\ UNCHANGED <<g_hal_state, startNesting>>
    /\ SeqFrame

EnterCritical ==
    /\ Len(trace) < MaxOps
    /\ g_interrupt_nesting' = hal_enter_critical(g_interrupt_nesting)
    /\ lastOp' = "enter_critical"
    /\ lastArg' = NoArg
    /\ lastRet' = Void
    /\ prevNesting' = g_interrupt_nesting
    /\ trace' = Append(trace, "E")
    /\ UNCHANGED <<g_hal_state, startNesting>>
    /\ SeqFrame

ExitCritical ==
    /\ Len(trace) < MaxOps
    /\ g_interrupt_nesting' = hal_exit_critical(g_interrupt_nesting)
    /\ lastOp' = "exit_critical"
    /\ lastArg' = NoArg
    /\ lastRet' = Void
    /\ prevNesting' = g_interrupt_nesting
    /\ trace' = Append(trace, "X")
    /\ UNCHANGED <<g_hal_state, startNesting>>
    /\ SeqFrame

Init == InitIrq

Next ==
    \/ DisableInterrupts
    \/ RestoreInterrupts
    \/ EnterCritical
    \/ ExitCritical

Spec == Init /\ [][Next]_vars

----------------------------------------------------------------------------
(* Interrupt functions called from several execution contexts.             *)
(* g_interrupt_nesting is a plain uint32_t: g_interrupt_nesting++ and      *)
(* g_interrupt_nesting-- are a load and a store with nothing between them  *)
(* to keep another context out, and the concurrent calls race.             *)

InitConc ==
    /\ g_interrupt_nesting = U32Zero
    /\ g_hal_state = [initialized |-> FALSE, start_time_us |-> 0]
    /\ HistNone
    /\ ConcIdle
    /\ TimeIdle
    /\ MemIdle
    /\ DevIdle

ConcFrame == UNCHANGED <<g_hal_state, histVars, timeVars, memVars, devVars>>

\* hal_disable_interrupts: load of g_interrupt_nesting
DisableLoad(c) ==
    /\ pc[c] = "idle"
    /\ calls[c] < MaxCalls
    /\ calls' = [calls EXCEPT ![c] = @ + 1]
    /\ reg' = [reg EXCEPT ![c] = g_interrupt_nesting]
    /\ pc' = [pc EXCEPT ![c] = "disable_store"]
    /\ UNCHANGED <<g_interrupt_nesting, completed, tokens>>
    /\ ConcFrame

\* hal_disable_interrupts: store of the loaded value + 1, return of the
\* loaded value
DisableStore(c) ==
    /\ pc[c] = "disable_store"
    /\ LET r == hal_disable_interrupts(reg[c]) IN
        /\ g_interrupt_nesting' = r.nesting
        /\ tokens' = Append(tokens, r.ret)
    /\ completed' = [completed EXCEPT !.dis = @ + 1]
    /\ pc' = [pc EXCEPT ![c] = "idle"]
    /\ UNCHANGED <<reg, calls>>
    /\ ConcFrame

\* hal_restore_interrupts: the test g_interrupt_nesting > 0; the compiler may
\* keep the tested value for the decrement or load the counter again
RestoreTest(c) ==
    /\ pc[c] = "idle"
    /\ calls[c] < MaxCalls
    /\ calls' = [calls EXCEPT ![c] = @ + 1]
    /\ tokens' = <<>>
    /\ IF U32Pos(g_interrupt_nesting)
       THEN \/ /\ reg' = [reg EXCEPT ![c] = g_interrupt_nesting]
               /\ pc' = [pc EXCEPT ![c] = "restore_store"]
            \/ /\ reg' = reg
               /\ pc' = [pc EXCEPT ![c] = "restore_load"]
       ELSE UNCHANGED <<reg, pc>>
    /\ UNCHANGED <<g_interrupt_nesting, completed>>
    /\ ConcFrame

\* hal_restore_interrupts: load of g_interrupt_nesting for the decrement
RestoreLoad(c) ==
    /\ pc[c] = "restore_load"
    /\ reg' = [reg EXCEPT ![c] = g_interrupt_nesting]
    /\ pc' = [pc EXCEPT ![c] = "restore_store"]
    /\ UNCHANGED <<g_interrupt_nesting, calls, completed, tokens>>
    /\ ConcFrame

\* hal_restore_interrupts: store of the loaded value - 1
RestoreStore(c) ==
    /\ pc[c] = "restore_store"
    /\ g_interrupt_nesting' = U32Dec(reg[c])
    /\ completed' = [completed EXCEPT !.res = @ + 1]
    /\ tokens' = <<>>
    /\ pc' = [pc EXCEPT ![c] = "idle"]
    /\ UNCHANGED <<reg, calls>>
    /\ ConcFrame

NextConc ==
    \/ \E c \in Contexts : DisableLoad(c)
    \/ \E c \in Contexts : DisableStore(c)
    \/ \E c \in Contexts : RestoreTest(c)
    \/ \E c \in Contexts : RestoreLoad(c)
    \/ \E c \in Contexts : RestoreStore(c)

SpecConc == InitConc /\ [][NextConc]_vars

----------------------------------------------------------------------------
(* Timing functions                                                        *)

NsPerSec == 1000000000

Min(a, b) == IF a < b THEN a ELSE b

\* the struct timespec a clock at ns nanoseconds reads as
Timespec(ns) == [tv_sec |-> ns \div NsPerSec, tv_nsec |-> ns % NsPerSec]

\* clock_gettime(id, &ts): 0 and the reading, or -1
clock_gettime(avail, ns) == [rc |-> IF avail THEN 0 ELSE -1, ts |-> Timespec(ns)]

\* (hal_timestamp_us_t)ts.tv_sec * 1000000ULL + (hal_timestamp_us_t)ts.tv_nsec / 1000ULL
TimestampUs(ts) == ts.tv_sec * 1000000 + ts.tv_nsec \div 1000

\* hal_get_timestamp_us(): CLOCK_MONOTONIC_RAW where the build has it, else
\* CLOCK_MONOTONIC, else 0
hal_get_timestamp_us ==
    LET raw == clock_gettime(rawAvail, rawNs)
        mono == clock_gettime(monoAvail, monoNs)
    IN IF build.hasRaw /\ raw.rc = 0 THEN TimestampUs(raw.ts)
       ELSE IF mono.rc = 0 THEN TimestampUs(mono.ts)
       ELSE 0

\* what an uninitialised struct timespec may read as, in nanoseconds
Garbage == {0, MaxStartNs}

\* hal_get_cycle_count(): the values one call may return.  With a hardware
\* counter, that counter; otherwise the nanoseconds of CLOCK_MONOTONIC, read
\* from ts without a look at clock_gettime's result
hal_get_cycle_count ==
    IF build.hwCycles THEN {tsc}
    ELSE LET mono == clock_gettime(monoAvail, monoNs)
         IN IF mono.rc = 0
            THEN {mono.ts.tv_sec * NsPerSec + mono.ts.tv_nsec}
            ELSE Garbage

\* delay durations the caller asks for (microseconds or nanoseconds)
Delays == {0, 1, 2, 10000, 10001}

\* time one turn of a busy-wait loop may take, nanoseconds
SpinNs == {600, 4000000}

\* how far CLOCK_MONOTONIC may run ahead of CLOCK_MONOTONIC_RAW over a sleep
SlewNs == 5000

\* time that passes between two calls, nanoseconds
IdleNs == 3000000

\* d nanoseconds pass; CLOCK_MONOTONIC gains slew more than CLOCK_MONOTONIC_RAW
Elapse(d, slew) ==
    /\ rawNs' = Min(rawNs + d, ClockCeilNs)
    /\ monoNs' = Min(monoNs + d + slew, ClockCeilNs)
    /\ tsc' = Min(tsc + TscPerNs * d, TscPerNs * (ClockCeilNs - StartNs))

\* the results of two hal_get_timestamp_us calls, first a then b
NowSeen(a, b) ==
    /\ prevNow' = a
    /\ lastNow' = b
    /\ nowSeen' = 2

\* nanosleep(&req, NULL): [mono, raw] nanoseconds that pass before it returns.
\* It sleeps the request out on CLOCK_MONOTONIC, or returns early when a
\* signal handler ran
nanosleep(req) ==
    LET reqNs == req.tv_sec * NsPerSec + req.tv_nsec
    IN {[mono |-> reqNs, raw |-> reqNs],
        [mono |-> reqNs + 50000, raw |-> reqNs + 50000],
        [mono |-> reqNs, raw |-> reqNs - SlewNs],
        [mono |-> reqNs \div 2, raw |-> reqNs \div 2]}

\* delay_us > 10000
LongDelay(delay_us) == delay_us > 10000

InitTime ==
    /\ g_interrupt_nesting = U32Zero
    /\ g_hal_state = [initialized |-> FALSE, start_time_us |-> 0]
    /\ HistNone
    /\ ConcIdle
    /\ MemIdle
    /\ DevIdle
    /\ rawNs = StartNs
    /\ monoNs = StartNs + SlewNs
    /\ tsc = 0
    /\ rawAvail = TRUE
    /\ monoAvail = TRUE
    /\ sourceChanges = 0
    /\ build \in [hasRaw : BOOLEAN, hwCycles : BOOLEAN]
    /\ tpc = "idle"
    /\ delayArg = 0
    /\ delayEnd = 0
    /\ spin = 0
    /\ polls = 0
    /\ nowBefore = 0
    /\ measure = NoMeasure
    /\ lastNow = 0
    /\ prevNow = 0
    /\ nowSeen = 0
    /\ timeCalls = 0

TimeFrame == UNCHANGED <<halVars, histVars, concVars, build, memVars, devVars>>

\* a clock source starts or stops failing
ClockSourceChange ==
    /\ sourceChanges < MaxSourceChanges
    /\ sourceChanges' = sourceChanges + 1
    /\ \E r, m \in BOOLEAN :
        /\ <<r, m>> # <<rawAvail, monoAvail>>
        /\ rawAvail' = r
        /\ monoAvail' = m
    /\ UNCHANGED <<clockVars, nowVars, callVars>>
    /\ TimeFrame

\* time passes between two calls
Tick ==
    /\ tpc = "idle"
    /\ rawNs < MaxStartNs
    /\ Elapse(IdleNs, 0)
    /\ UNCHANGED <<availVars, nowVars, callVars>>
    /\ TimeFrame

\* the caller reads now()
Now ==
    /\ tpc = "idle"
    /\ prevNow' = lastNow
    /\ lastNow' = hal_get_timestamp_us
    /\ nowSeen' = Min(nowSeen + 1, 2)
    /\ UNCHANGED <<clockVars, availVars, callVars>>
    /\ TimeFrame

\* the caller reads now() and calls hal_delay_us(delay_us): start and end are
\* taken, and delays over the threshold sleep in nanosleep
DelayUsCall(delay_us) ==
    /\ tpc = "idle"
    /\ timeCalls < MaxTimeCalls
    /\ rawNs <= MaxStartNs
    /\ timeCalls' = timeCalls + 1
    /\ nowBefore' = hal_get_timestamp_us
    /\ delayArg' = delay_us
    /\ LET start == hal_get_timestamp_us
           end == start + delay_us
       IN /\ delayEnd' = end
          /\ NowSeen(hal_get_timestamp_us, start)
          /\ IF LongDelay(delay_us)
             THEN LET req == [tv_sec |-> delay_us \div 1000000,
                              tv_nsec |-> (delay_us % 1000000) * 1000]
                  IN /\ \E e \in nanosleep(req) : Elapse(e.raw, e.mono - e.raw)
                     /\ tpc' = "delay_returned"
                     /\ spin' = 0
             ELSE /\ tpc' = "delay_us_loop"
                  /\ \E sp \in SpinNs :
                        /\ sp * MaxPolls >= delay_us * 1000
                        /\ spin' = sp
                  /\ UNCHANGED clockVars
    /\ polls' = 0
    /\ UNCHANGED <<availVars, measure>>
    /\ TimeFrame

\* the loop body: one turn takes spin nanoseconds
SpinTurn ==
    IF polls < MaxPolls
    THEN /\ Elapse(spin, 0)
         /\ polls' = polls + 1
    ELSE /\ Elapse(ClockCeilNs - StartNs, 0)
         /\ polls' = IF polls = MaxPolls THEN MaxPolls + 1 ELSE MaxPolls

\* one turn of while (hal_get_timestamp_us() < end) hal_spin_hint();
DelayUsPoll ==
    /\ tpc = "delay_us_loop"
    /\ LET t == hal_get_timestamp_us IN
        /\ prevNow' = lastNow
        /\ lastNow' = t
        /\ nowSeen' = Min(nowSeen + 1, 2)
        /\ IF t < delayEnd
           THEN /\ SpinTurn
                /\ tpc' = tpc
           ELSE /\ UNCHANGED <<clockVars, polls>>
                /\ tpc' = "delay_returned"
    /\ UNCHANGED <<availVars, delayArg, delayEnd, spin, nowBefore, measure, timeCalls>>
    /\ TimeFrame

\* hal_delay_us has returned and the caller reads now() again
SampleAfter ==
    /\ tpc = "delay_returned"
    /\ LET t == hal_get_timestamp_us IN
        /\ prevNow' = lastNow
        /\ lastNow' = t
        /\ nowSeen' = Min(nowSeen + 1, 2)
        /\ measure' = [d |-> delayArg, before |-> nowBefore, after |-> t]
    /\ tpc' = "idle"
    /\ delayArg' = 0
    /\ delayEnd' = 0
    /\ spin' = 0
    /\ polls' = 0
    /\ nowBefore' = 0
    /\ UNCHANGED <<clockVars, availVars, timeCalls>>
    /\ TimeFrame

\* the caller calls hal_delay_ns(delay_ns): target_cycles is taken
DelayNsCall(delay_ns) ==
    /\ tpc = "idle"
    /\ timeCalls < MaxTimeCalls
    /\ rawNs <= MaxStartNs
    /\ timeCalls' = timeCalls + 1
    /\ delayArg' = delay_ns
    /\ LET cycles_per_ns == 2 IN
        \E c \in hal_get_cycle_count :
            delayEnd' = c + delay_ns * cycles_per_ns
    /\ \E sp \in SpinNs :
        /\ sp * MaxPolls >= delay_ns * 2
        /\ spin' = sp
    /\ polls' = 0
    /\ tpc' = "delay_ns_loop"
    /\ UNCHANGED <<clockVars, availVars, nowVars, nowBefore, measure>>
    /\ TimeFrame

\* one turn of while (hal_get_cycle_count() < target_cycles) hal_spin_hint();
DelayNsPoll ==
    /\ tpc = "delay_ns_loop"
    /\ \E c \in hal_get_cycle_count :
        IF c < delayEnd
        THEN /\ SpinTurn
             /\ tpc' = tpc
             /\ UNCHANGED <<delayArg, delayEnd, spin>>
        ELSE /\ UNCHANGED clockVars
             /\ tpc' = "idle"
             /\ delayArg' = 0
             /\ delayEnd' = 0
             /\ spin' = 0
             /\ polls' = 0
    /\ UNCHANGED <<availVars, nowVars, nowBefore, measure, timeCalls>>
    /\ TimeFrame

NextTime ==
    \/ ClockSourceChange
    \/ Tick
    \/ Now
    \/ \E delay_us \in Delays : DelayUsCall(delay_us)
    \/ DelayUsPoll
    \/ SampleAfter
    \/ \E delay_ns \in Delays : DelayNsCall(delay_ns)
    \/ DelayNsPoll

SpecTime == InitTime /\ [][NextTime]_vars

\* a running busy-wait loop keeps turning, and a caller whose delay call has
\* returned goes on
SpecTimeFair ==
    /\ SpecTime
    /\ WF_vars(DelayUsPoll)
    /\ WF_vars(DelayNsPoll)
    /\ WF_vars(SampleAfter)

----------------------------------------------------------------------------
(* Memory functions                                                        *)

\* sizeof(void*)
PtrSize == 8

\* x & ~m on naturals, bit by bit
RECURSIVE AndNot(_, _)
AndNot(x, m) ==
    IF x = 0 THEN 0
    ELSE (x % 2) * (1 - (m % 2)) + 2 * AndNot(x \div 2, m \div 2)

IsPow2(n) == n > 0 /\ AndNot(n, n - 1) = n

\* (addr + alignment - 1) & ~(alignment - 1)
AlignUp(addr, alignment) == AndNot(addr + alignment - 1, alignment - 1)

\* size_t arithmetic is modulo 2^w (w the width of size_t).  A size_t within
\* 2^30 of zero is held as itself and one within 2^30 of 2^w as its two's
\* complement, -d for 2^w - d, so that + and - on these integers are + and -
\* modulo 2^w.
SIZE_MAX == -1

\* n > SIZE_MAX / 2: more bytes than an address space holds
Huge(n) == n < 0

\* sizes and alignments the caller asks for
Sizes == {1, 1024, SIZE_MAX - 63}

Alignments == {1, 2, 8, 64, 4096}

\* addresses at which the platform allocator may place a block
MallocBases == {4112, 4120, 12304}

Overlaps(base, len) ==
    \E b \in heap : base < b.base + b.len /\ b.base < base + len

\* malloc(n): NULL or the base of a fresh block of n bytes
malloc(n) ==
    IF Huge(n) THEN {NULL}
    ELSE {NULL} \cup {b \in MallocBases : ~Overlaps(b, n)}

EINVAL == 22

ENOMEM == 12

\* posix_memalign(&ptr, alignment, size): EINVAL unless alignment is a power
\* of two and a multiple of sizeof(void*); else ENOMEM, or 0 and a fresh block
\* at a multiple of alignment
posix_memalign(alignment, size) ==
    IF ~IsPow2(alignment) \/ alignment % PtrSize # 0
    THEN {[rc |-> EINVAL, ptr |-> NULL]}
    ELSE IF Huge(size)
    THEN {[rc |-> ENOMEM, ptr |-> NULL]}
    ELSE {[rc |-> ENOMEM, ptr |-> NULL]}
         \cup {[rc |-> 0, ptr |-> b] :
                 b \in {a \in {4096 + alignment * k : k \in 0..2} : ~Overlaps(a, size)}}

\* the byte range [addr, addr + len) lies inside a live block
InLive(addr, len, blocks) ==
    \E b \in blocks : b.base <= addr /\ addr + len <= b.base + b.len

\* the word stored at addr; memory the HAL never wrote reads as anything
Load(addr) ==
    IF \E w \in stash : w[1] = addr
    THEN {w[2] : w \in {v \in stash : v[1] = addr}}
    ELSE {NULL} \cup MallocBases

InitMem ==
    /\ g_interrupt_nesting = U32Zero
    /\ g_hal_state = [initialized |-> FALSE, start_time_us |-> 0]
    /\ HistNone
    /\ ConcIdle
    /\ TimeIdle
    /\ DevIdle
    /\ memBuild \in {"posix", "manual"}
    /\ heap = {}
    /\ stash = {}
    /\ owned = {}
    /\ lastAlloc = NoAlloc
    /\ released = <<>>
    /\ fault = FALSE
    /\ memCalls = 0
    /\ rawOf = {}
    /\ lastFree = NoFree

MemFrame == UNCHANGED <<halVars, histVars, concVars, timeVars, devVars, memBuild>>

\* hal_malloc_aligned(size, alignment) where _POSIX_C_SOURCE >= 200112L
MallocAlignedPosix(size, alignment) ==
    /\ memBuild = "posix"
    /\ memCalls < MaxAllocs
    /\ memCalls' = memCalls + 1
    /\ \E r \in posix_memalign(alignment, size) :
        IF r.rc # 0
        THEN /\ lastAlloc' = [called |-> TRUE, size |-> size, alignment |-> alignment,
                              raw |-> NULL, len |-> 0, ptr |-> NULL]
             /\ UNCHANGED <<heap, owned, rawOf>>
        ELSE /\ heap' = heap \cup {[base |-> r.ptr, len |-> size]}
             /\ owned' = owned \cup {r.ptr}
             /\ rawOf' = rawOf \cup {<<r.ptr, r.ptr>>}
             /\ lastAlloc' = [called |-> TRUE, size |-> size, alignment |-> alignment,
                              raw |-> r.ptr, len |-> size, ptr |-> r.ptr]
    /\ UNCHANGED <<stash, released, fault, lastFree>>
    /\ MemFrame

\* hal_malloc_aligned(size, alignment), the over-allocating fallback
MallocAlignedManual(size, alignment) ==
    /\ memBuild = "manual"
    /\ memCalls < MaxAllocs
    /\ memCalls' = memCalls + 1
    /\ \E raw \in malloc(size + alignment + PtrSize) :
        IF raw = NULL
        THEN /\ lastAlloc' = [called |-> TRUE, size |-> size, alignment |-> alignment,
                              raw |-> NULL, len |-> 0, ptr |-> NULL]
             /\ UNCHANGED <<heap, owned, rawOf, stash, fault>>
        ELSE LET block == [base |-> raw, len |-> size + alignment + PtrSize]
                 addr == raw + PtrSize
                 aligned == AlignUp(addr, alignment)
             IN /\ heap' = heap \cup {block}
                /\ stash' = {w \in stash : w[1] # aligned - PtrSize}
                               \cup {<<aligned - PtrSize, raw>>}
                /\ fault' = (fault \/ ~InLive(aligned - PtrSize, PtrSize, {block}))
                /\ owned' = owned \cup {aligned}
                /\ rawOf' = {w \in rawOf : w[1] # aligned} \cup {<<aligned, raw>>}
                /\ lastAlloc' = [called |-> TRUE, size |-> size, alignment |-> alignment,
                                 raw |-> raw, len |-> block.len, ptr |-> aligned]
    /\ UNCHANGED <<released, lastFree>>
    /\ MemFrame

\* free(p) of a pointer that is not NULL
Free(p) ==
    /\ released' = Append(released, p)
    /\ IF \E b \in heap : b.base = p
       THEN /\ heap' = {b \in heap : b.base # p}
            /\ stash' = {w \in stash : ~InLive(w[1], PtrSize, {b \in heap : b.base = p})}
            /\ fault' = fault
       ELSE /\ fault' = TRUE
            /\ UNCHANGED <<heap, stash>>

\* the raw base hal_malloc_aligned got for ptr
RawOf(ptr) == CHOOSE raw \in {w[2] : w \in rawOf} : <<ptr, raw>> \in rawOf

\* hal_free_aligned(ptr)
FreeAligned(ptr) ==
    /\ IF ptr = NULL
       THEN /\ UNCHANGED <<heap, stash, released, fault>>
            /\ lastFree' = [called |-> TRUE, ptr |-> NULL, expect |-> NULL,
                            freed |-> NULL]
       ELSE IF memBuild = "posix"
            THEN /\ Free(ptr)
                 /\ lastFree' = [called |-> TRUE, ptr |-> ptr,
                                 expect |-> RawOf(ptr), freed |-> ptr]
            ELSE \E raw \in Load(ptr - PtrSize) :
                    /\ Free(raw)
                    /\ lastFree' = [called |-> TRUE, ptr |-> ptr,
                                    expect |-> RawOf(ptr), freed |-> raw]
    /\ owned' = owned \ {ptr}
    /\ rawOf' = {w \in rawOf : w[1] # ptr}
    /\ UNCHANGED <<lastAlloc, memCalls>>
    /\ MemFrame

NextMem ==
    \/ \E size \in Sizes, alignment \in Alignments : MallocAlignedPosix(size, alignment)
    \/ \E size \in Sizes, alignment \in Alignments : MallocAlignedManual(size, alignment)
    \/ \E ptr \in owned \cup {NULL} : FreeAligned(ptr)

SpecMem == InitMem /\ [][NextMem]_vars

----------------------------------------------------------------------------
(* Timer and DMA functions                                                 *)

HAL_OK == 0

HAL_INVALID_PARAM == -4

HAL_TIMEOUT == -2

\* variant: the configuration is not looked at
hal_timer_init_unchecked(timer_id, config) == HAL_OK

hal_timer_init(timer_id, config) ==
    IF config = NULL THEN HAL_INVALID_PARAM ELSE HAL_OK

hal_timer_start(timer_id) == HAL_OK

hal_timer_stop(timer_id) == HAL_OK

\* *counter = 0 unless counter is NULL
hal_timer_get_counter(timer_id, counter) ==
    IF counter = NULL
    THEN [status |-> HAL_INVALID_PARAM, stored |-> FALSE]
    ELSE [status |-> HAL_OK, stored |-> TRUE]

hal_dma_init(dma_id, config) ==
    IF config = NULL THEN HAL_INVALID_PARAM ELSE HAL_OK

hal_dma_start(dma_id) == HAL_OK

\* uint8_t channel ids
ChannelIds == 0..255

\* channel ids used for the calls that take no configuration
EdgeIds == {0, 1, 255}

\* addresses a caller passes for a configuration or an out-parameter
Pointers == {NULL, 8192}

\* the HAL state the timer / DMA calls find: the counter after no or after
\* 2^32 - 1 hal_disable_interrupts calls
InitDev ==
    /\ g_interrupt_nesting \in {U32Zero, U32Max}
    /\ g_hal_state = [initialized |-> FALSE, start_time_us |-> 0]
    /\ HistNone
    /\ ConcIdle
    /\ TimeIdle
    /\ MemIdle
    /\ DevIdle

DevFrame == UNCHANGED <<halVars, histVars, concVars, timeVars, memVars>>

TimerInit(timer_id, config) ==
    /\ tpc = "idle"
    /\ devCall' = [op |-> "timer_init", id |-> timer_id, arg |-> config,
                   status |-> hal_timer_init(timer_id, config), out |-> 0]
    /\ prevHal' = <<g_interrupt_nesting, g_hal_state>>
    /\ everInit' = (everInit \/ hal_timer_init(timer_id, config) = HAL_OK)
    /\ DevFrame

TimerStart(timer_id) ==
    /\ tpc = "idle"
    /\ devCall' = [op |-> "timer_start", id |-> timer_id, arg |-> NULL,
                   status |-> hal_timer_start(timer_id), out |-> 0]
    /\ prevHal' = <<g_interrupt_nesting, g_hal_state>>
    /\ UNCHANGED everInit
    /\ DevFrame

TimerStop(timer_id) ==
    /\ tpc = "idle"
    /\ devCall' = [op |-> "timer_stop", id |-> timer_id, arg |-> NULL,
                   status |-> hal_timer_stop(timer_id), out |-> 0]
    /\ prevHal' = <<g_interrupt_nesting, g_hal_state>>
    /\ UNCHANGED everInit
    /\ DevFrame

TimerGetCounter(timer_id, counter) ==
    /\ tpc = "idle"
    /\ LET r == hal_timer_get_counter(timer_id, counter) IN
        devCall' = [op |-> "timer_get_counter", id |-> timer_id, arg |-> counter,
                    status |-> r.status, out |-> IF r.stored THEN 0 ELSE -1]
    /\ prevHal' = <<g_interrupt_nesting, g_hal_state>>
    /\ UNCHANGED everInit
    /\ DevFrame

DmaInit(dma_id, config) ==
    /\ tpc = "idle"
    /\ devCall' = [op |-> "dma_init", id |-> dma_id, arg |-> config,
                   status |-> hal_dma_init(dma_id, config), out |-> 0]
    /\ prevHal' = <<g_interrupt_nesting, g_hal_state>>
    /\ everInit' = (everInit \/ hal_dma_init(dma_id, config) = HAL_OK)
    /\ DevFrame

DmaStart(dma_id) ==
    /\ tpc = "idle"
    /\ devCall' = [op |-> "dma_start", id |-> dma_id, arg |-> NULL,
                   status |-> hal_dma_start(dma_id), out |-> 0]
    /\ prevHal' = <<g_interrupt_nesting, g_hal_state>>
    /\ UNCHANGED everInit
    /\ DevFrame

NextDev ==
    \/ \E id \in ChannelIds, config \in Pointers : TimerInit(id, config)
    \/ \E id \in EdgeIds : TimerStart(id)
    \/ \E id \in EdgeIds : TimerStop(id)
    \/ \E id \in EdgeIds, counter \in Pointers : TimerGetCounter(id, counter)
    \/ \E id \in ChannelIds, config \in Pointers : DmaInit(id, config)
    \/ \E id \in EdgeIds : DmaStart(id)

SpecDev == InitDev /\ [][NextDev]_vars

\* variant: a wait with a timeout reports the timeout
hal_dma_wait_timeout(dma_id, timeout_us) ==
    [delay |-> timeout_us > 0,
     status |-> IF timeout_us > 0 THEN HAL_TIMEOUT ELSE HAL_OK]

\* if (timeout_us > 0) hal_delay_us(timeout_us); return HAL_OK;
hal_dma_wait(dma_id, timeout_us) ==
    [delay |-> timeout_us > 0, status |-> HAL_OK]

\* timeouts passed to hal_dma_wait
Timeouts == {0, 1, 10000, 10001}

\* the caller calls hal_dma_wait(dma_id, timeout_us).  With no timeout it
\* returns at once; otherwise hal_delay_us(timeout_us) takes start and end and
\* sleeps in nanosleep or enters its busy-wait loop
DmaWaitCall(dma_id, timeout_us) ==
    /\ tpc = "idle"
    /\ prevHal' = <<g_interrupt_nesting, g_hal_state>>
    /\ LET w == hal_dma_wait(dma_id, timeout_us) IN
        IF w.delay
        THEN /\ timeCalls < MaxTimeCalls
             /\ rawNs <= MaxStartNs
             /\ timeCalls' = timeCalls + 1
             /\ devCall' = [op |-> "dma_wait_running", id |-> dma_id,
                            arg |-> timeout_us, status |-> w.status, out |-> 0]
             /\ delayArg' = timeout_us
             /\ LET start == hal_get_timestamp_us
                    end == start + timeout_us
                IN /\ delayEnd' = end
                   /\ prevNow' = lastNow
                   /\ lastNow' = start
                   /\ nowSeen' = Min(nowSeen + 1, 2)
                   /\ IF LongDelay(timeout_us)
                      THEN LET req == [tv_sec |-> timeout_us \div 1000000,
                                       tv_nsec |-> (timeout_us % 1000000) * 1000]
                           IN /\ \E e \in nanosleep(req) :
                                    Elapse(e.raw, e.mono - e.raw)
                              /\ tpc' = "delay_returned"
                              /\ spin' = 0
                      ELSE /\ tpc' = "delay_us_loop"
                           /\ \E sp \in SpinNs :
                                 /\ sp * MaxPolls >= timeout_us * 1000
                                 /\ spin' = sp
                           /\ UNCHANGED clockVars
             /\ polls' = 0
             /\ UNCHANGED <<availVars, nowBefore, measure>>
        ELSE /\ devCall' = [op |-> "dma_wait", id |-> dma_id,
                            arg |-> timeout_us, status |-> w.status, out |-> 0]
             /\ UNCHANGED <<clockVars, availVars, nowVars, callVars>>
    /\ UNCHANGED <<halVars, histVars, concVars, build, memVars, everInit>>

\* hal_delay_us has returned inside hal_dma_wait, which returns its status
DmaWaitReturn ==
    /\ tpc = "delay_returned"
    /\ devCall.op = "dma_wait_running"
    /\ devCall' = [devCall EXCEPT !.op = "dma_wait"]
    /\ tpc' = "idle"
    /\ delayArg' = 0
    /\ delayEnd' = 0
    /\ spin' = 0
    /\ polls' = 0
    /\ UNCHANGED <<clockVars, availVars, nowVars, nowBefore, measure, timeCalls>>
    /\ UNCHANGED <<halVars, histVars, concVars, build, memVars, prevHal, everInit>>

\* the timer / DMA calls of one caller in any order, hal_dma_wait with the
\* clocks it waits on
NextLife ==
    \/ \E id \in EdgeIds, config \in Pointers : TimerInit(id, config)
    \/ \E id \in EdgeIds : TimerStart(id)
    \/ \E id \in EdgeIds : TimerStop(id)
    \/ \E id \in EdgeIds, counter \in Pointers : TimerGetCounter(id, counter)
    \/ \E id \in EdgeIds, config \in Pointers : DmaInit(id, config)
    \/ \E id \in EdgeIds : DmaStart(id)
    \/ \E id \in EdgeIds, timeout_us \in Timeouts : DmaWaitCall(id, timeout_us)
    \/ DelayUsPoll
    \/ DmaWaitReturn
    \/ ClockSourceChange

SpecLife == InitDev /\ [][NextLife]_vars

----------------------------------------------------------------------------
(* Shapes of call sequences                                                *)

\* trace is n disable calls followed by n restore calls
DisablesThenRestores(tr, n) ==
    /\ Len(tr) = 2 * n
    /\ \A i \in 1..n : tr[i] = "D"
    /\ \A i \in (n + 1)..(2 * n) : tr[i] = "R"

OnlyDisables(tr) == \A i \in 1..Len(tr) : tr[i] = "D"

\* every exit closes the innermost open enter, every restore the innermost
\* open disable, and nothing is left open
RECURSIVE WellNestedFrom(_, _)
WellNestedFrom(tr, open) ==
    IF tr = <<>> THEN open = <<>>
    ELSE IF Head(tr) \in {"D", "E"}
         THEN WellNestedFrom(Tail(tr), <<Head(tr)>> \o open)
         ELSE /\ open # <<>>
              /\ Head(open) = (IF Head(tr) = "R" THEN "D" ELSE "E")
              /\ WellNestedFrom(Tail(tr), Tail(open))

WellNested(tr) == WellNestedFrom(tr, <<>>)

\* deepest nesting a sequence reaches
RECURSIVE MaxDepthFrom(_, _, _)
MaxDepthFrom(tr, d, m) ==
    IF tr = <<>> THEN m
    ELSE LET nd == IF Head(tr) \in {"D", "E"} THEN d + 1 ELSE d - 1
         IN MaxDepthFrom(Tail(tr), nd, IF nd > m THEN nd ELSE m)

MaxDepth(tr) == MaxDepthFrom(tr, 0, 0)

\* the counter went up by one, wrapping from 2^32 - 1 to 0
WentUp(before, after) ==
    IF before = U32Max THEN after = U32Zero ELSE IsSucc(before, after)

\* the counter went down by one, or stayed at 0
WentDown(before, after) ==
    IF U32Pos(before) THEN IsSucc(after, before) ELSE after = U32Zero

----------------------------------------------------------------------------
(* Claims                                                                  *)

\* C1 as stated: a disable call returns the counter value c it found and
\* leaves the counter at c + 1, for every c; from 0 the k-th disable in a
\* row returns k - 1.
C1_AsStated ==
    lastOp = "disable_interrupts" =>
        /\ lastRet = prevNesting
        /\ IsSucc(prevNesting, g_interrupt_nesting)
        /\ (startNesting = U32Zero /\ OnlyDisables(trace))
               => lastRet = U32Of(Len(trace) - 1)

\* C1 amended: a disable call returns the counter value c it found and
\* leaves the counter at c + 1 when c < 2^32 - 1 and at 0 when c = 2^32 - 1;
\* from 0 the k-th disable in a row returns k - 1.
C1_DisableReturnsPreIncrement ==
    lastOp = "disable_interrupts" =>
        /\ lastRet = prevNesting
        /\ WentUp(prevNesting, g_interrupt_nesting)
        /\ (startNesting = U32Zero /\ OnlyDisables(trace))
               => lastRet = U32Of(Len(trace) - 1)

C1_Witness ==
    /\ lastOp = "disable_interrupts"
    /\ startNesting = U32Zero
    /\ trace = <<"D", "D", "D">>
    /\ lastRet = U32Of(2)
    /\ g_interrupt_nesting = U32Of(3)

\* C2: the counter is never below zero; a restore call takes the counter
\* down by exactly 1 when it was > 0 and leaves it at 0 when it was 0,
\* whatever token it is given.
C2_RestoreNeverUnderflows ==
    /\ g_interrupt_nesting.hi \in 0..(Limb - 1)
    /\ g_interrupt_nesting.lo \in 0..(Limb - 1)
    /\ lastOp = "restore_interrupts" =>
           WentDown(prevNesting, g_interrupt_nesting)

C2_Witness ==
    /\ lastOp = "restore_interrupts"
    /\ prevNesting = U32Zero
    /\ lastArg = U32Of(7)
    /\ g_interrupt_nesting = U32Zero

\* C3 as stated: after N disable calls followed by N restore calls the
\* counter is back at its starting value c, for every c and N.
C3_AsStated ==
    \A n \in 0..MaxOps :
        DisablesThenRestores(trace, n) => g_interrupt_nesting = startNesting

\* C3 amended: after N disable calls followed by N restore calls (any
\* tokens) the counter is back at its starting value c, for every c and N
\* with c + N <= 2^32 - 1.
C3_BalancedReturnsToStart ==
    \A n \in 0..MaxOps :
        (DisablesThenRestores(trace, n) /\ U32Fits(startNesting, n))
            => g_interrupt_nesting = startNesting

C3_Witness ==
    /\ DisablesThenRestores(trace, 2)
    /\ startNesting = U32Of(1)
    /\ lastArg = U32Max
    /\ g_interrupt_nesting = startNesting

\* C4 as stated: enter_critical changes the counter as a disable call does
\* and exit_critical as restore_interrupts(0) does; every well-nested mixture
\* of enter/exit and disable/restore pairs leaves the counter at its starting
\* value.
C4_AsStated ==
    /\ lastOp = "enter_critical" => WentUp(prevNesting, g_interrupt_nesting)
    /\ lastOp = "exit_critical" => WentDown(prevNesting, g_interrupt_nesting)
    /\ WellNested(trace) => g_interrupt_nesting = startNesting

\* C4 amended: enter_critical changes the counter as a disable call does and
\* exit_critical as restore_interrupts(0) does; every well-nested mixture of
\* enter/exit and disable/restore pairs whose depth d keeps c + d <= 2^32 - 1
\* leaves the counter at its starting value c.
C4_CriticalSectionsNest ==
    /\ lastOp = "enter_critical" => WentUp(prevNesting, g_interrupt_nesting)
    /\ lastOp = "exit_critical" => WentDown(prevNesting, g_interrupt_nesting)
    /\ (WellNested(trace) /\ U32Fits(startNesting, MaxDepth(trace)))
           => g_interrupt_nesting = startNesting

C4_Witness ==
    /\ trace = <<"E", "D", "R", "X">>
    /\ lastOp = "exit_critical"
    /\ g_interrupt_nesting = startNesting

\* C5: under every interleaving of disable and restore calls made from
\* several contexts no update of the counter is lost (once the calls have
\* returned, the counter is the initial 0 plus the completed disables minus
\* the completed restores that found it > 0) and no two disable calls return
\* the same token without a restore between them.
C5_AsStated ==
    /\ (\A c \in Contexts : pc[c] = "idle") =>
           /\ completed.dis >= completed.res
           /\ g_interrupt_nesting = U32Of(completed.dis - completed.res)
    /\ \A i, j \in 1..Len(tokens) : i # j => tokens[i] # tokens[j]

\* C6: for every D > 0, on the busy-poll path and on the sleep path, now()
\* read right after delay_microseconds(D) is at least now() read right before
\* it plus D.
C6_AsStated ==
    measure.d > 0 => measure.after >= measure.before + measure.d

\* C7: every delay_microseconds and delay_nanoseconds call returns, whether
\* the clock advances or now() yields 0 because every clock source fails.
C7_AsStated == (tpc # "idle") ~> (tpc = "idle")

\* C8: of any two now() results the later one is not below the earlier one,
\* also when the clock source in use changes between the calls or the
\* sentinel 0 is returned.
C8_AsStated == nowSeen = 2 => lastNow >= prevNow

C10_InitChecksConfigOnly ==
    devCall.op \in {"timer_init", "dma_init"} =>
        /\ devCall.status = (IF devCall.arg = NULL THEN HAL_INVALID_PARAM ELSE HAL_OK)
        /\ <<g_interrupt_nesting, g_hal_state>> = prevHal

C10_Witness ==
    /\ devCall.op = "timer_init"
    /\ devCall.id = 255
    /\ devCall.arg # NULL
    /\ devCall.status = HAL_OK
    /\ g_interrupt_nesting = U32Max


C12_AsStated ==
    memBuild = "manual" =>
        /\ lastAlloc.called /\ lastAlloc.ptr # NULL =>
            LET A == lastAlloc.ptr
                raw == lastAlloc.raw
            IN /\ raw + PtrSize <= A
               /\ ~Huge(lastAlloc.size)
               /\ A + lastAlloc.size <= raw + lastAlloc.len
               /\ raw <= A - PtrSize
               /\ A <= raw + lastAlloc.len
        /\ lastFree.called =>
            lastFree.freed = IF lastFree.ptr = NULL THEN NULL ELSE lastFree.expect
        /\ ~fault
        /\ Cardinality(heap) = Cardinality(owned)
        /\ Len(released) + Cardinality(heap) <= memCalls

====
